---- MODULE Spec2Model ----
(***************************************************************************)
(* The Clerk -> backend token bridge of flood-risk-assessment.             *)
(*                                                                         *)
(* State: the two SQLite tables (users, user_tokens) behind the Database   *)
(* singleton, the wall clock, and a pool of request slots, each of which   *)
(* runs one route handler at a time.  A handler is a chain of awaited SQL  *)
(* statements; every statement executes atomically in SQLite, and the      *)
(* statements of different requests interleave.  One action is one         *)
(* statement execution together with the JavaScript that runs on its       *)
(* result up to the next await (clock reads included); auth() and the body *)
(* checks, which touch no shared state, belong to the first statement.     *)
(* Times are milliseconds since the epoch, as Date.now() returns them.     *)
(*                                                                         *)
(* Init gives one slot: the requests run one after another while the clock *)
(* moves between their statements.  InitRace gives two: the statements of  *)
(* two requests on the users table interleave.                             *)
(*                                                                         *)
(* issued and stored are history: the token values and the token rows     *)
(* that were ever inserted (a sweep takes rows out of tokens only).        *)
(*                                                                         *)
(* hook is the React state of one useAuthenticatedUser hook in a browser   *)
(* (what Clerk reports, the four useState values) and its calls in flight. *)
(*                                                                         *)
(* db is the Database singleton of the server process: whether it has     *)
(* been constructed and how far initializeTables has come.  Except in      *)
(* SpecBoot the runs start with the singleton constructed and its tables   *)
(* created.                                                                *)
(*                                                                         *)
(* last is the response sent in the step just taken (NoEvent when the step *)
(* sent none): the properties of a handler's result are invariants of the  *)
(* states in which last holds that result.                                 *)
(***************************************************************************)
EXTENDS Integers, Sequences, FiniteSets, TLC

\* ------------------------------------------------------------------------
\* Bounds of the model
\* ------------------------------------------------------------------------
MaxTicks == 2
MaxTokens == 2
\* Calls of the client hook in flight at a time
MaxCalls == 2

\* ------------------------------------------------------------------------
\* Program constants
\* ------------------------------------------------------------------------
DefaultTtl == 1440
MaxTtl == 10080
MsPerMinute == 60 * 1000
MsPerSecond == 1000

\* ------------------------------------------------------------------------
\* Value domains
\* ------------------------------------------------------------------------
\* "" is the falsy string (missing field / no Clerk session).
ClerkIds == {"c1", "c2"}
Emails == {"e1", "e2"}
\* SQL NULL / JavaScript undefined of an optional text field.
Absent == "NULL"
FirstNames == {Absent, "Ann"}
\* Values crypto.randomBytes(32) can return; 0 is the falsy (missing) token
\* and MaxTokens + 1 is a value the generator never returns.
TokenValues == 1..MaxTokens
MissingToken == 0
PresentedTokens == 0..(MaxTokens + 1)
\* The clock starts in the middle of a second and moves by half a second or
\* to half a second before the next minute.
StartTime == 10 * MsPerMinute + 500
Deltas == {500, MsPerMinute - 500}

VARIABLES users, tokens, now, ticks, procs, issued, stored, lastSync, last,
          hook, db

vars ==
    <<users, tokens, now, ticks, procs, issued, stored, lastSync, last, hook,
      db>>

\* The request slots of a run (Init fixes them)
Procs == DOMAIN procs

\* ------------------------------------------------------------------------
\* Request slots
\* ------------------------------------------------------------------------
NoInput ==
    [authId |-> "", clerkId |-> "", email |-> "", firstName |-> Absent,
     lastName |-> Absent, imageUrl |-> Absent, lastSignInAt |-> << >>,
     ttl |-> << >>, token |-> MissingToken]

NoLocals ==
    [user |-> << >>, newUser |-> << >>, signIn |-> << >>, stamp |-> 0,
     token |-> 0, expiresAt |-> 0, issuedAt |-> 0, createdAt |-> 0,
     todo |-> << >>, failed |-> "", status |-> 0]

NoResp ==
    [success |-> FALSE, status |-> 0, error |-> "", user |-> << >>,
     token |-> 0, expiresAt |-> 0]

IdleProc == [op |-> "none", pc |-> "idle", in |-> NoInput, loc |-> NoLocals]

NoEvent ==
    [op |-> "none", in |-> NoInput, loc |-> NoLocals, resp |-> NoResp,
     prev |-> << >>]

\* NextResponse.json({success: false, error}, {status})
ErrorResp(status, error) ==
    [NoResp EXCEPT !.status = status, !.error = error]

\* NextResponse.json({success: true, data}); the HTTP status defaults to 200
OkResp(user, token, expiresAt) ==
    [success |-> TRUE, status |-> 200, error |-> "", user |-> user,
     token |-> token, expiresAt |-> expiresAt]

\* A slot takes a new request when it is free.  The second slot is used only
\* for a request that overlaps one of the first (the slots are
\* interchangeable).
CanStart(p) ==
    /\ procs[p].pc = "idle"
    /\ \A q \in 1..(p - 1) : procs[q].pc # "idle"

\* The handler goes on to its next statement.
Goto(p, op, pc, in, loc) ==
    /\ procs' = [procs EXCEPT ![p] =
                    [op |-> op, pc |-> pc, in |-> in, loc |-> loc]]
    /\ last' = NoEvent

\* The handler returns response r.
Return(p, op, in, loc, r, prev) ==
    /\ procs' = [procs EXCEPT ![p] = IdleProc]
    /\ last' = [op |-> op, in |-> in, loc |-> loc, resp |-> r, prev |-> prev]

\* ------------------------------------------------------------------------
\* Database: the singleton and initializeTables
\* ------------------------------------------------------------------------
\* The statements of initializeTables: CREATE TABLE users, CREATE TABLE
\* user_tokens and four CREATE INDEX, each awaited before the next is run.
InitStatements == 6

\* dbInstance is null and database.db may be a new file (fresh) or the file
\* of an earlier run of the server.
NoDb(fresh) == [instance |-> FALSE, init |-> 0, fresh |-> fresh]

\* The singleton is constructed and initializeTables has returned.
ReadyDb == [instance |-> TRUE, init |-> InitStatements, fresh |-> FALSE]

\* getDatabase(): the first call constructs the Database, whose constructor
\* calls initializeTables without awaiting it.
getDatabase == [db EXCEPT !.instance = TRUE]

\* CREATE TABLE IF NOT EXISTS has run for the table, now or in an earlier
\* run of the server.
UsersTableExists == ~db.fresh \/ db.init >= 1
TokensTableExists == ~db.fresh \/ db.init >= 2

\* ------------------------------------------------------------------------
\* Database: users
\* ------------------------------------------------------------------------
\* SELECT * FROM users WHERE clerkId = ?  -- a row or null (<< >>)
getUserByClerkIdAnyRow(clerkId) ==
    IF \E u \in users : u.clerkId = clerkId
    THEN <<CHOOSE u \in users : u.clerkId = clerkId>>
    ELSE IF users # {} THEN <<CHOOSE u \in users : TRUE>> ELSE << >>

getUserByClerkId(clerkId) ==
    IF \E u \in users : u.clerkId = clerkId
    THEN <<CHOOSE u \in users : u.clerkId = clerkId>>
    ELSE << >>

\* The ids of the rows and of the rows the requests in flight are inserting
UserIdsInUse ==
    {u.id : u \in users}
    \cup {procs[q].loc.newUser[1].id :
             q \in {r \in Procs : procs[r].loc.newUser # << >>}}

\* `user_${Date.now()}_${Math.random()...}`: an id nobody holds
NewUserId ==
    CHOOSE i \in 1..(Cardinality(UserIdsInUse) + 1) :
        /\ i \notin UserIdsInUse
        /\ \A j \in 1..(i - 1) : j \in UserIdsInUse

\* The constraints of the users table: id PRIMARY KEY, clerkId UNIQUE,
\* email UNIQUE.
UsersInsertOkWithoutClerkId(row) ==
    \A u \in users : u.id # row.id /\ u.email # row.email

UsersInsertOk(row) ==
    \A u \in users : u.id # row.id /\ u.clerkId # row.clerkId
                     /\ u.email # row.email

\* createUser builds the row before it awaits the INSERT.
NewUserRow(in, lastSignInAt) ==
    [id |-> NewUserId, clerkId |-> in.clerkId, email |-> in.email,
     firstName |-> in.firstName, lastName |-> in.lastName,
     imageUrl |-> in.imageUrl, createdAt |-> now, updatedAt |-> now,
     lastSignInAt |-> lastSignInAt]

\* The SET list updateUser builds from upsertUser's argument: a field whose
\* value is undefined is left out, updatedAt is always set.
UpdatedRowResettingCreatedAt(u, in, lastSignInAt, stamp) ==
    [u EXCEPT !.email = in.email, !.createdAt = stamp, !.updatedAt = stamp]

UpdatedRow(u, in, lastSignInAt, stamp) ==
    [u EXCEPT !.email = in.email,
              !.firstName = IF in.firstName # Absent THEN in.firstName ELSE @,
              !.lastName = IF in.lastName # Absent THEN in.lastName ELSE @,
              !.imageUrl = IF in.imageUrl # Absent THEN in.imageUrl ELSE @,
              !.lastSignInAt = IF lastSignInAt # << >> THEN lastSignInAt ELSE @,
              !.updatedAt = stamp]

\* UPDATE users SET ... WHERE clerkId = ? violates email UNIQUE when another
\* row holds the new email.
UsersUpdateOk(clerkId, email) ==
    \A u \in users : u.clerkId # clerkId => u.email # email

\* ------------------------------------------------------------------------
\* POST /api/auth/sync-user
\* ------------------------------------------------------------------------
\* The identity assertions of the two Clerk users, as the client hook sends
\* them (lastSignInAt is the client's clock), and a body without it.
SyncBodies ==
    [authId : ClerkIds, clerkId : ClerkIds, email : Emails,
     firstName : FirstNames, lastName : {Absent}, imageUrl : {Absent},
     lastSignInAt : {<< >>}, ttl : {<< >>}, token : {MissingToken}]
    \cup {[NoInput EXCEPT !.clerkId = "c1", !.email = "e1"],
          [NoInput EXCEPT !.authId = "c1", !.email = "e1"],
          [NoInput EXCEPT !.authId = "c1", !.clerkId = "c1"]}

\* Another sync-user request for the same clerkId is between its first and
\* its last statement.
OtherSyncInFlight(p, clerkId) ==
    \E q \in Procs \ {p} : /\ procs[q].op = "sync"
                            /\ procs[q].in.clerkId = clerkId

\* What a sync-user call was given and what it returned
SyncRecord(in, user) ==
    [email |-> in.email, firstName |-> in.firstName,
     lastName |-> in.lastName, imageUrl |-> in.imageUrl,
     id |-> user.id, clerkId |-> user.clerkId,
     createdAt |-> user.createdAt, updatedAt |-> user.updatedAt]

\* History of the sync-user calls on one clerkId: the last successful call,
\* kept only while the calls on that clerkId follow one another (no two of
\* them overlap).
SyncDone(p, r) ==
    LET in == procs[p].in
        ok == r.success /\ r.user # << >>
              /\ ~OtherSyncInFlight(p, in.clerkId)
    IN  /\ Return(p, "sync", in, procs[p].loc, r, lastSync[in.clerkId])
        /\ lastSync' = [lastSync EXCEPT ![in.clerkId] =
               IF ok THEN <<SyncRecord(in, r.user[1])>> ELSE << >>]

\* if (!body.clerkId || !body.email): a missing field and the empty string
\* are both falsy.
MissingRequiredFieldsClerkIdOnly(in) == in.clerkId = ""

MissingRequiredFields(in) == in.clerkId = "" \/ in.email = ""

\* sync-user POST up to the first statement of db.upsertUser: auth(), the
\* body checks, userData (lastSignInAt falls back to the clock), and the
\* SELECT of getUserByClerkId.  On a row updateUser stamps updatedAt and
\* builds the UPDATE, otherwise createUser builds the row (id, createdAt,
\* updatedAt) for the INSERT.
SyncStart(p, bodies) ==
    /\ CanStart(p)
    /\ \E in \in bodies :
          IF in.authId = ""
          THEN /\ Return(p, "sync", in, NoLocals,
                    ErrorResp(401, "Unauthorized - no Clerk user ID found"),
                    << >>)
               /\ UNCHANGED lastSync
          ELSE IF MissingRequiredFields(in)
          THEN /\ Return(p, "sync", in, NoLocals, ErrorResp(400,
                    "Missing required fields: clerkId and email are required"),
                    << >>)
               /\ UNCHANGED lastSync
          ELSE IF in.authId # in.clerkId
          THEN /\ Return(p, "sync", in, NoLocals,
                    ErrorResp(403, "Unauthorized - Clerk ID mismatch"), << >>)
               /\ UNCHANGED lastSync
          ELSE LET signIn == IF in.lastSignInAt # << >>
                             THEN in.lastSignInAt ELSE <<now>>
                   existingUser == getUserByClerkId(in.clerkId)
               IN  /\ IF existingUser # << >>
                      THEN Goto(p, "sync", "update_exec", in,
                                [NoLocals EXCEPT !.signIn = signIn,
                                                 !.stamp = now])
                      ELSE Goto(p, "sync", "insert_exec", in,
                                [NoLocals EXCEPT !.signIn = signIn,
                                    !.newUser = <<NewUserRow(in, signIn)>>])
                   /\ lastSync' = [lastSync EXCEPT ![in.clerkId] =
                         IF OtherSyncInFlight(p, in.clerkId)
                         THEN << >> ELSE @]
    /\ UNCHANGED <<users, tokens, now, ticks, hook, db, issued, stored>>

\* sync-user POST when the SELECT of getUserByClerkId fails: the catch of
\* getUserByClerkId returns null, so upsertUser goes to createUser.
SyncStartFails(p, bodies) ==
    /\ CanStart(p)
    /\ \E in \in bodies :
          /\ in.authId # "" /\ ~MissingRequiredFields(in)
          /\ in.authId = in.clerkId
          /\ LET signIn == IF in.lastSignInAt # << >>
                           THEN in.lastSignInAt ELSE <<now>>
             IN  Goto(p, "sync", "insert_exec", in,
                      [NoLocals EXCEPT !.signIn = signIn,
                          !.newUser = <<NewUserRow(in, signIn)>>,
                          !.failed = "getUserByClerkId"])
          /\ lastSync' = [lastSync EXCEPT ![in.clerkId] =
                IF OtherSyncInFlight(p, in.clerkId) THEN << >> ELSE @]
    /\ UNCHANGED <<users, tokens, now, ticks, hook, db, issued, stored>>

\* createUser: the INSERT executes.  A constraint violation is rethrown as
\* 'Failed to create user' and ends in the handler's catch (500).
SyncInsertSweeping(p) ==
    /\ procs[p].op = "sync" /\ procs[p].pc = "insert_exec"
    /\ LET row == procs[p].loc.newUser[1]
       IN  IF UsersInsertOk(row)
           THEN /\ users' = users \cup {row}
                /\ SyncDone(p, OkResp(<<row>>, 0, 0))
           ELSE /\ UNCHANGED users
                /\ SyncDone(p, ErrorResp(500, "Internal server error"))
    /\ tokens' = {r \in tokens : r.expiresAt > now}
    /\ UNCHANGED <<now, ticks, hook, db, issued, stored>>

SyncInsert(p) ==
    /\ procs[p].op = "sync" /\ procs[p].pc = "insert_exec"
    /\ LET row == procs[p].loc.newUser[1]
       IN  IF UsersInsertOk(row)
           THEN /\ users' = users \cup {row}
                /\ SyncDone(p, OkResp(<<row>>, 0, 0))
           ELSE /\ UNCHANGED users
                /\ SyncDone(p, ErrorResp(500, "Internal server error"))
    /\ UNCHANGED <<tokens, now, ticks, hook, db, issued, stored>>

\* updateUser: the UPDATE executes.  Its failure is caught and turned into
\* null, which upsertUser returns and the handler sends as the data of a
\* success response.
SyncUpdate(p) ==
    /\ procs[p].op = "sync" /\ procs[p].pc = "update_exec"
    /\ LET in == procs[p].in
           loc == procs[p].loc
       IN  IF UsersUpdateOk(in.clerkId, in.email)
           THEN /\ users' = {IF u.clerkId = in.clerkId
                             THEN UpdatedRow(u, in, loc.signIn, loc.stamp)
                             ELSE u : u \in users}
                /\ Goto(p, "sync", "update_read", in, loc)
                /\ UNCHANGED lastSync
           ELSE /\ UNCHANGED users
                /\ SyncDone(p, OkResp(<< >>, 0, 0))
    /\ UNCHANGED <<tokens, now, ticks, hook, db, issued, stored>>

\* updateUser: the SELECT that reads the row back executes.
SyncRead(p) ==
    /\ procs[p].op = "sync" /\ procs[p].pc = "update_read"
    /\ SyncDone(p, OkResp(getUserByClerkId(procs[p].in.clerkId), 0, 0))
    /\ UNCHANGED <<users, tokens, now, ticks, hook, db, issued, stored>>

\* ------------------------------------------------------------------------
\* POST /api/webhooks/clerk (user.created, user.updated)
\* ------------------------------------------------------------------------
\* The events Clerk sends for the users: data.id, the primary email ("" when
\* email_addresses is empty), first_name; last_sign_in_at is not set.
WebhookBodies ==
    [authId : {""}, clerkId : ClerkIds, email : Emails \cup {""},
     firstName : FirstNames, lastName : {Absent}, imageUrl : {Absent},
     lastSignInAt : {<< >>}, ttl : {<< >>}, token : {MissingToken}]

\* {success: true, message: 'Webhook processed successfully'}:
\* handleUserUpsert catches whatever db.upsertUser throws.
WebhookResp == OkResp(<< >>, 0, 0)

\* The event reaches handleUserUpsert, which returns when there is no email
\* address and otherwise calls db.upsertUser: the SELECT of getUserByClerkId
\* executes and updateUser or createUser prepares its statement.
WebhookStart(p, bodies) ==
    /\ CanStart(p)
    /\ \E in \in bodies :
          IF in.email = ""
          THEN Return(p, "webhook", in, NoLocals, WebhookResp, << >>)
          ELSE IF getUserByClerkId(in.clerkId) # << >>
          THEN Goto(p, "webhook", "update_exec", in,
                    [NoLocals EXCEPT !.signIn = in.lastSignInAt,
                                     !.stamp = now])
          ELSE Goto(p, "webhook", "insert_exec", in,
                    [NoLocals EXCEPT !.signIn = in.lastSignInAt,
                        !.newUser = <<NewUserRow(in, in.lastSignInAt)>>])
    /\ UNCHANGED <<users, tokens, now, ticks, hook, db, issued, stored,
                   lastSync>>

\* createUser: the INSERT executes; its error is logged and dropped.
WebhookInsert(p) ==
    /\ procs[p].op = "webhook" /\ procs[p].pc = "insert_exec"
    /\ LET row == procs[p].loc.newUser[1]
       IN  users' = IF UsersInsertOk(row) THEN users \cup {row} ELSE users
    /\ Return(p, "webhook", procs[p].in, procs[p].loc, WebhookResp, << >>)
    /\ UNCHANGED <<tokens, now, ticks, hook, db, issued, stored, lastSync>>

\* updateUser: the UPDATE executes.
WebhookUpdate(p) ==
    /\ procs[p].op = "webhook" /\ procs[p].pc = "update_exec"
    /\ LET in == procs[p].in
           loc == procs[p].loc
       IN  IF UsersUpdateOk(in.clerkId, in.email)
           THEN /\ users' = {IF u.clerkId = in.clerkId
                             THEN UpdatedRow(u, in, loc.signIn, loc.stamp)
                             ELSE u : u \in users}
                /\ Goto(p, "webhook", "update_read", in, loc)
           ELSE /\ UNCHANGED users
                /\ Return(p, "webhook", in, loc, WebhookResp, << >>)
    /\ UNCHANGED <<tokens, now, ticks, hook, db, issued, stored, lastSync>>

\* updateUser: the SELECT that reads the row back executes.
WebhookRead(p) ==
    /\ procs[p].op = "webhook" /\ procs[p].pc = "update_read"
    /\ Return(p, "webhook", procs[p].in, procs[p].loc, WebhookResp, << >>)
    /\ UNCHANGED <<users, tokens, now, ticks, hook, db, issued, stored,
                   lastSync>>

\* ------------------------------------------------------------------------
\* POST /api/webhooks/clerk (session.created)
\* ------------------------------------------------------------------------
\* The SET list of updateUser(data.id, {lastSignInAt: now}): lastSignInAt
\* and updatedAt.
SignedInRow(u, stamp) ==
    [u EXCEPT !.lastSignInAt = <<stamp>>, !.updatedAt = stamp]

\* The event reaches handleSessionCreated: updateUser stamps updatedAt and
\* builds its UPDATE.
SessionStart(p) ==
    /\ CanStart(p)
    /\ \E clerkId \in ClerkIds :
          Goto(p, "session", "update_exec",
               [NoInput EXCEPT !.clerkId = clerkId],
               [NoLocals EXCEPT !.signIn = <<now>>, !.stamp = now])
    /\ UNCHANGED <<users, tokens, now, ticks, hook, db, issued, stored,
                   lastSync>>

\* updateUser: the UPDATE executes on the rows WHERE clerkId = ?, which may
\* be none.
SessionUpdate(p) ==
    /\ procs[p].op = "session" /\ procs[p].pc = "update_exec"
    /\ users' = {IF u.clerkId = procs[p].in.clerkId
                 THEN SignedInRow(u, procs[p].loc.stamp)
                 ELSE u : u \in users}
    /\ Goto(p, "session", "update_read", procs[p].in, procs[p].loc)
    /\ UNCHANGED <<tokens, now, ticks, hook, db, issued, stored, lastSync>>

\* updateUser: the SELECT that reads the row back executes and its result,
\* a row or null, is returned; handleSessionCreated does not look at it and
\* the handler answers 'Webhook processed successfully'.
SessionRead(p) ==
    /\ procs[p].op = "session" /\ procs[p].pc = "update_read"
    /\ Return(p, "session", procs[p].in,
              [procs[p].loc EXCEPT
                  !.user = getUserByClerkId(procs[p].in.clerkId)],
              WebhookResp, << >>)
    /\ UNCHANGED <<users, tokens, now, ticks, hook, db, issued, stored,
                   lastSync>>

\* ------------------------------------------------------------------------
\* Database: user_tokens
\* ------------------------------------------------------------------------
\* SQLite's datetime() renders a time as 'YYYY-MM-DD HH:MM:SS': the
\* milliseconds of an ISO string (and of 'now') are dropped.
datetime(t) == t \div MsPerSecond

\* WHERE clerkId = ? AND datetime(expiresAt) > datetime('now')
TokenSelectableIgnoringExpiry(r, clerkId) == r.clerkId = clerkId

TokenSelectable(r, clerkId) ==
    r.clerkId = clerkId /\ datetime(r.expiresAt) > datetime(now)

\* SELECT ... ORDER BY createdAt DESC LIMIT 1: the results the statement can
\* have, null (<< >>) or a row; rows with equal createdAt come in any order.
SelectUserToken(table, clerkId) ==
    LET rows == {r \in table : TokenSelectable(r, clerkId)}
    IN  IF rows = {} THEN {<< >>}
        ELSE {<<r>> : r \in {x \in rows :
                                \A y \in rows : y.createdAt <= x.createdAt}}

getUserToken(clerkId) == SelectUserToken(tokens, clerkId)

\* DELETE FROM user_tokens WHERE datetime(expiresAt) <= datetime('now')
deleteExpiredTokensWithoutWhere == {}

deleteExpiredTokensRenewing ==
    {IF datetime(r.expiresAt) <= datetime(now)
     THEN [r EXCEPT !.expiresAt = now + MsPerMinute] ELSE r : r \in tokens}

deleteExpiredTokensLateCutoff ==
    {r \in tokens : ~(datetime(r.expiresAt) <= datetime(now + MsPerMinute))}

deleteExpiredTokens ==
    {r \in tokens : ~(datetime(r.expiresAt) <= datetime(now))}

\* SELECT * FROM users ORDER BY createdAt DESC: the orders the statement can
\* return the rows in.
getAllUsers ==
    LET n == Cardinality(users)
    IN  {s \in [1..n -> users] :
            /\ \A i, j \in 1..n : i # j => s[i] # s[j]
            /\ \A i, j \in 1..n : i < j => s[i].createdAt >= s[j].createdAt}

\* The token values the requests in flight have generated
TokensInFlight == {procs[q].loc.token : q \in Procs}

\* crypto.randomBytes(32).toString('base64url'): 256 random bits, a value
\* that was never generated before (the values are opaque: the next unused
\* one stands for any of them)
randomBytes ==
    LET fresh == TokenValues \ (issued \cup TokensInFlight)
    IN  {v \in fresh : \A w \in fresh : v <= w}

\* The generator as the library defines it: any value, one that is already
\* stored included (while the table has room for a row in this model)
randomBytesAnyValue ==
    IF Cardinality(tokens) < MaxTokens THEN TokenValues ELSE {}

\* `token_${Date.now()}_${Math.random()...}`: an id nobody holds
TokenIdsInUse ==
    {r.id : r \in tokens} \cup issued
    \cup {procs[q].loc.stamp : q \in {x \in Procs : procs[x].op = "issue"}}

NewTokenId ==
    CHOOSE i \in 1..(Cardinality(TokenIdsInUse) + 1) :
        /\ i \notin TokenIdsInUse
        /\ \A j \in 1..(i - 1) : j \in TokenIdsInUse

\* Math.min(body.expiresInMinutes || 1440, 10080): || takes the default for
\* the falsy values (undefined, 0) only.
expiresInMinutesLateClamp(ttl) ==
    LET requested == IF ttl = << >> \/ ttl = <<0>> THEN DefaultTtl ELSE ttl[1]
    IN  IF requested < 2 * MaxTtl THEN requested ELSE 2 * MaxTtl

expiresInMinutesDefaultMax(ttl) ==
    LET requested == IF ttl = << >> \/ ttl = <<0>> THEN MaxTtl ELSE ttl[1]
    IN  IF requested < MaxTtl THEN requested ELSE MaxTtl

expiresInMinutes(ttl) ==
    LET requested == IF ttl = << >> \/ ttl = <<0>> THEN DefaultTtl ELSE ttl[1]
    IN  IF requested < MaxTtl THEN requested ELSE MaxTtl

\* ------------------------------------------------------------------------
\* POST /api/auth/generate-token
\* ------------------------------------------------------------------------
IssueBodies(ttls) ==
    {[NoInput EXCEPT !.authId = c, !.clerkId = c, !.ttl = t] :
        c \in ClerkIds, t \in ttls}
    \cup {[NoInput EXCEPT !.clerkId = "c1"],
          [NoInput EXCEPT !.authId = "c1"],
          [NoInput EXCEPT !.authId = "c1", !.clerkId = "c2"]}

\* generate-token POST up to the await of deleteExpiredTokens: auth(), the
\* body checks, the SELECT of getUserByClerkId, the token and its expiry.
\* values are the results crypto.randomBytes can have.
IssueStartWithoutSubjectCheck(p, ttls, values) ==
    /\ CanStart(p)
    /\ \E in \in IssueBodies(ttls) :
          IF in.authId = ""
          THEN Return(p, "issue", in, NoLocals,
                  ErrorResp(401, "Unauthorized - no Clerk user ID found"),
                  << >>)
          ELSE IF in.clerkId = ""
          THEN Return(p, "issue", in, NoLocals,
                  ErrorResp(400, "Missing required field: clerkId"), << >>)
          ELSE LET user == getUserByClerkId(in.clerkId)
               IN  IF user = << >>
                   THEN Return(p, "issue", in, NoLocals, ErrorResp(404,
                           "User not found. Please sync user first."), << >>)
                   ELSE \E token \in values :
                           Goto(p, "issue", "sweep_exec", in,
                                [NoLocals EXCEPT
                                   !.user = user,
                                   !.token = token,
                                   !.issuedAt = now,
                                   !.expiresAt = now +
                                      expiresInMinutes(in.ttl) * MsPerMinute])
    /\ UNCHANGED <<users, tokens, now, ticks, hook, db, issued, stored,
                   lastSync>>

IssueStartWith(p, ttls, values) ==
    /\ CanStart(p)
    /\ \E in \in IssueBodies(ttls) :
          IF in.authId = ""
          THEN Return(p, "issue", in, NoLocals,
                  ErrorResp(401, "Unauthorized - no Clerk user ID found"),
                  << >>)
          ELSE IF in.clerkId = ""
          THEN Return(p, "issue", in, NoLocals,
                  ErrorResp(400, "Missing required field: clerkId"), << >>)
          ELSE IF in.authId # in.clerkId
          THEN Return(p, "issue", in, NoLocals,
                  ErrorResp(403, "Unauthorized - Clerk ID mismatch"), << >>)
          ELSE LET user == getUserByClerkId(in.clerkId)
               IN  IF user = << >>
                   THEN Return(p, "issue", in, NoLocals, ErrorResp(404,
                           "User not found. Please sync user first."), << >>)
                   ELSE \E token \in values :
                           Goto(p, "issue", "sweep_exec", in,
                                [NoLocals EXCEPT
                                   !.user = user,
                                   !.token = token,
                                   !.issuedAt = now,
                                   !.expiresAt = now +
                                      expiresInMinutes(in.ttl) * MsPerMinute])
    /\ UNCHANGED <<users, tokens, now, ticks, hook, db, issued, stored,
                   lastSync>>

\* The handler with a generator that does not repeat itself
IssueStart(p, ttls) == IssueStartWith(p, ttls, randomBytes)

\* generate-token POST when the SELECT of getUserByClerkId fails: null is
\* returned for the user.
IssueStartFails(p, ttls) ==
    /\ CanStart(p)
    /\ \E in \in IssueBodies(ttls) :
          /\ in.authId # "" /\ in.clerkId # "" /\ in.authId = in.clerkId
          /\ Return(p, "issue", in,
                    [NoLocals EXCEPT !.failed = "getUserByClerkId"],
                    ErrorResp(404, "User not found. Please sync user first."),
                    << >>)
    /\ UNCHANGED <<users, tokens, now, ticks, hook, db, issued, stored,
                   lastSync>>

\* deleteExpiredTokens when its DELETE fails: the error is logged and the
\* handler goes on to createUserToken.
IssueSweepFailsAborting(p) ==
    /\ procs[p].op = "issue" /\ procs[p].pc = "sweep_exec"
    /\ Return(p, "issue", procs[p].in,
              [procs[p].loc EXCEPT !.failed = "deleteExpiredTokens"],
              ErrorResp(500, "Internal server error"), << >>)
    /\ UNCHANGED <<users, tokens, now, ticks, hook, db, issued, stored,
                   lastSync>>

IssueSweepFails(p) ==
    /\ procs[p].op = "issue" /\ procs[p].pc = "sweep_exec"
    /\ Goto(p, "issue", "insert_exec", procs[p].in,
            [procs[p].loc EXCEPT !.stamp = NewTokenId, !.createdAt = now,
                                 !.failed = "deleteExpiredTokens"])
    /\ UNCHANGED <<users, tokens, now, ticks, hook, db, issued, stored,
                   lastSync>>

\* deleteExpiredTokens: the DELETE executes; then createUserToken builds the
\* row (id, createdAt) for the INSERT.
IssueSweep(p) ==
    /\ procs[p].op = "issue" /\ procs[p].pc = "sweep_exec"
    /\ tokens' = deleteExpiredTokens
    /\ Goto(p, "issue", "insert_exec", procs[p].in,
            [procs[p].loc EXCEPT !.stamp = NewTokenId, !.createdAt = now])
    /\ UNCHANGED <<users, now, ticks, hook, db, issued, stored, lastSync>>

\* The row createUserToken inserts
NewTokenRowWithoutUser(in, loc) ==
    [id |-> loc.stamp, userId |-> 0, clerkId |-> in.clerkId,
     token |-> loc.token, expiresAt |-> loc.expiresAt,
     createdAt |-> loc.createdAt]

NewTokenRow(in, loc) ==
    [id |-> loc.stamp, userId |-> loc.user[1].id, clerkId |-> in.clerkId,
     token |-> loc.token, expiresAt |-> loc.expiresAt,
     createdAt |-> loc.createdAt]

\* The constraint of the user_tokens table: id PRIMARY KEY (the foreign keys
\* are not enforced: the connection never sets PRAGMA foreign_keys).
TokensInsertOk(row) == \A r \in tokens : r.id # row.id

\* createUserToken: the INSERT executes and the handler answers with the
\* user it read at the start and the token it stored.
IssueInsert(p) ==
    /\ procs[p].op = "issue" /\ procs[p].pc = "insert_exec"
    /\ LET in == procs[p].in
           loc == procs[p].loc
           row == NewTokenRow(in, loc)
       IN  IF TokensInsertOk(row)
           THEN /\ tokens' = tokens \cup {row}
                /\ issued' = issued \cup {row.token}
                /\ stored' = stored \cup {row}
                /\ Return(p, "issue", in, loc,
                          OkResp(loc.user, row.token, row.expiresAt), << >>)
           ELSE /\ UNCHANGED <<tokens, issued, stored>>
                /\ Return(p, "issue", in, loc,
                          ErrorResp(500, "Internal server error"), << >>)
    /\ UNCHANGED <<users, now, ticks, hook, db, lastSync>>

\* ------------------------------------------------------------------------
\* GET /api/auth/generate-token
\* ------------------------------------------------------------------------
\* auth() and the SELECT of getUserByClerkId
GetCurrentStart(p) ==
    /\ CanStart(p)
    /\ \E authId \in ClerkIds \cup {""} :
          LET in == [NoInput EXCEPT !.authId = authId, !.clerkId = authId]
              user == getUserByClerkId(authId)
          IN  IF authId = ""
              THEN Return(p, "current", in, NoLocals,
                          ErrorResp(401, "Unauthorized"), << >>)
              ELSE IF user = << >>
              THEN Return(p, "current", in, NoLocals, ErrorResp(404,
                           "User not found. Please sync user first."), << >>)
              ELSE Goto(p, "current", "token_lookup", in,
                        [NoLocals EXCEPT !.user = user])
    /\ UNCHANGED <<users, tokens, now, ticks, hook, db, issued, stored,
                   lastSync>>

\* The SELECT of getUserToken executes and the handler answers.
GetCurrentTokenSweeping(p) ==
    /\ procs[p].op = "current" /\ procs[p].pc = "token_lookup"
    /\ \E existingToken \in getUserToken(procs[p].in.clerkId) :
          IF existingToken = << >>
          THEN Return(p, "current", procs[p].in, procs[p].loc, ErrorResp(404,
                  "No valid token found. Please generate a new token."),
                  << >>)
          ELSE Return(p, "current", procs[p].in, procs[p].loc,
                  OkResp(procs[p].loc.user, existingToken[1].token,
                         existingToken[1].expiresAt), << >>)
    /\ tokens' = deleteExpiredTokens
    /\ UNCHANGED <<users, now, ticks, hook, db, issued, stored, lastSync>>

GetCurrentToken(p) ==
    /\ procs[p].op = "current" /\ procs[p].pc = "token_lookup"
    /\ \E existingToken \in getUserToken(procs[p].in.clerkId) :
          IF existingToken = << >>
          THEN Return(p, "current", procs[p].in, procs[p].loc, ErrorResp(404,
                  "No valid token found. Please generate a new token."),
                  << >>)
          ELSE Return(p, "current", procs[p].in, procs[p].loc,
                  OkResp(procs[p].loc.user, existingToken[1].token,
                         existingToken[1].expiresAt), << >>)
    /\ UNCHANGED <<users, tokens, now, ticks, hook, db, issued, stored,
                   lastSync>>

\* GET generate-token when the SELECT of getUserByClerkId fails
GetCurrentStartFails(p) ==
    /\ CanStart(p)
    /\ \E authId \in ClerkIds :
          Return(p, "current",
                 [NoInput EXCEPT !.authId = authId, !.clerkId = authId],
                 [NoLocals EXCEPT !.failed = "getUserByClerkId"],
                 ErrorResp(404, "User not found. Please sync user first."),
                 << >>)
    /\ UNCHANGED <<users, tokens, now, ticks, hook, db, issued, stored,
                   lastSync>>

\* GET generate-token when the SELECT of getUserToken fails: its catch
\* returns null for the token.
GetCurrentTokenFails(p) ==
    /\ procs[p].op = "current" /\ procs[p].pc = "token_lookup"
    /\ Return(p, "current", procs[p].in,
              [procs[p].loc EXCEPT !.failed = "getUserToken"],
              ErrorResp(404,
                  "No valid token found. Please generate a new token."),
              << >>)
    /\ UNCHANGED <<users, tokens, now, ticks, hook, db, issued, stored,
                   lastSync>>

\* ------------------------------------------------------------------------
\* GET /api/auth/generate-token while the server starts
\* ------------------------------------------------------------------------
\* initializeTables: its next statement has executed.
InitializeTablesStep ==
    /\ db.instance /\ db.init < InitStatements
    /\ db' = [db EXCEPT !.init = @ + 1]
    /\ last' = NoEvent
    /\ UNCHANGED <<users, tokens, now, ticks, procs, hook, issued, stored,
                   lastSync>>

\* auth() gives a userId, getDatabase() returns the singleton (the first
\* call constructs it and initializeTables starts) and getUserByClerkId
\* hands its SELECT to the connection.
BootCurrentStart(p) ==
    /\ CanStart(p)
    /\ \E authId \in ClerkIds :
          Goto(p, "current", "user_lookup",
               [NoInput EXCEPT !.authId = authId, !.clerkId = authId],
               NoLocals)
    /\ db' = getDatabase
    /\ UNCHANGED <<users, tokens, now, ticks, hook, issued, stored, lastSync>>

\* The SELECT of getUserByClerkId executes.  The connection runs the
\* statements it is handed in parallel (it is never put in serialize
\* mode), so this may be before CREATE TABLE users; 'no such table' is
\* caught by getUserByClerkId and becomes null.
BootCurrentUser(p) ==
    /\ procs[p].op = "current" /\ procs[p].pc = "user_lookup"
    /\ LET in == procs[p].in
           user == getUserByClerkId(in.clerkId)
       IN  IF ~UsersTableExists
           THEN Return(p, "current", in,
                    [NoLocals EXCEPT !.failed = "getUserByClerkId"],
                    ErrorResp(404, "User not found. Please sync user first."),
                    << >>)
           ELSE IF user = << >>
           THEN Return(p, "current", in, NoLocals, ErrorResp(404,
                    "User not found. Please sync user first."), << >>)
           ELSE Goto(p, "current", "token_lookup", in,
                     [NoLocals EXCEPT !.user = user])
    /\ UNCHANGED <<users, tokens, now, ticks, hook, db, issued, stored,
                   lastSync>>

\* ------------------------------------------------------------------------
\* POST /api/auth/verify-token
\* ------------------------------------------------------------------------
\* The end of the scan over allUsers without a match
ValidateMiss(p, in, loc) ==
    Return(p, "verify", in, loc,
           ErrorResp(401, "Invalid or expired token"), << >>)

\* The body check and the SELECT of getAllUsers
ValidateStart(p) ==
    /\ CanStart(p)
    /\ \E token \in PresentedTokens :
          LET in == [NoInput EXCEPT !.token = token]
          IN  IF token = MissingToken
              THEN Return(p, "verify", in, NoLocals,
                          ErrorResp(400, "Missing token"), << >>)
              ELSE \E allUsers \in getAllUsers :
                      IF allUsers = << >>
                      THEN ValidateMiss(p, in, NoLocals)
                      ELSE Goto(p, "verify", "scan", in,
                                [NoLocals EXCEPT !.todo = allUsers])
    /\ UNCHANGED <<users, tokens, now, ticks, hook, db, issued, stored,
                   lastSync>>

\* The test of the loop body: the user's current token is the presented one
\* and expires after new Date().
TokenMatchesAnyValue(userTokenData, token) ==
    /\ userTokenData # << >>
    /\ userTokenData[1].expiresAt > now

TokenMatches(userTokenData, token) ==
    /\ userTokenData # << >>
    /\ userTokenData[1].token = token
    /\ userTokenData[1].expiresAt > now

\* One turn of the loop over allUsers: the SELECT of getUserToken for the
\* next user executes; the token must be that user's and expire after
\* new Date().
ValidateScanSweeping(p) ==
    /\ procs[p].op = "verify" /\ procs[p].pc = "scan"
    /\ LET in == procs[p].in
           loc == procs[p].loc
           user == Head(loc.todo)
       IN  \E userTokenData \in getUserToken(user.clerkId) :
              IF TokenMatches(userTokenData, in.token)
              THEN Return(p, "verify", in, loc,
                          OkResp(<<user>>, userTokenData[1].token,
                                 userTokenData[1].expiresAt), << >>)
              ELSE IF Tail(loc.todo) = << >>
              THEN ValidateMiss(p, in, loc)
              ELSE Goto(p, "verify", "scan", in,
                        [loc EXCEPT !.todo = Tail(loc.todo)])
    /\ tokens' = deleteExpiredTokens
    /\ UNCHANGED <<users, now, ticks, hook, db, issued, stored, lastSync>>

ValidateScan(p) ==
    /\ procs[p].op = "verify" /\ procs[p].pc = "scan"
    /\ LET in == procs[p].in
           loc == procs[p].loc
           user == Head(loc.todo)
       IN  \E userTokenData \in getUserToken(user.clerkId) :
              IF TokenMatches(userTokenData, in.token)
              THEN Return(p, "verify", in, loc,
                          OkResp(<<user>>, userTokenData[1].token,
                                 userTokenData[1].expiresAt), << >>)
              ELSE IF Tail(loc.todo) = << >>
              THEN ValidateMiss(p, in, loc)
              ELSE Goto(p, "verify", "scan", in,
                        [loc EXCEPT !.todo = Tail(loc.todo)])
    /\ UNCHANGED <<users, tokens, now, ticks, hook, db, issued, stored,
                   lastSync>>

\* ------------------------------------------------------------------------
\* useAuthenticatedUser: the token initialization of the client hook
\* ------------------------------------------------------------------------
\* A slot with op "hook" is a browser tab running initializeToken; its
\* fetches are requests that run in another slot, and the response the step
\* before returned (last) is the one its await resumes with.

\* The effect runs with localUser set (the sync returned the user's row), no
\* authToken and a userId.
HookCanStart(p, userId) ==
    /\ CanStart(p)
    /\ getUserByClerkId(userId) # << >>

HookInput(userId) == [NoInput EXCEPT !.authId = userId, !.clerkId = userId]

\* lib/auth-utils.ts: initializeToken calls getExistingToken, which sends
\* GET /api/auth/generate-token.
HookStart(p) ==
    /\ \E userId \in ClerkIds :
          /\ HookCanStart(p, userId)
          /\ Goto(p, "hook", "get_wait", HookInput(userId), NoLocals)
    /\ UNCHANGED <<users, tokens, now, ticks, hook, db, issued, stored,
                   lastSync>>

\* The other copy of the hook: getExistingToken returns null when authToken
\* is not set, which is the case whenever initializeToken calls it, so the
\* hook goes on to generateToken without a request.
HookStartApiService(p) ==
    /\ \E userId \in ClerkIds :
          /\ HookCanStart(p, userId)
          /\ Goto(p, "hook", "gen_wait", HookInput(userId),
                  [NoLocals EXCEPT !.failed = "getExistingToken"])
    /\ UNCHANGED <<users, tokens, now, ticks, hook, db, issued, stored,
                   lastSync>>

\* setAuthToken(result.data.token): the hook has its token.
HookAdopt(p, r) ==
    Return(p, "hook", procs[p].in, [procs[p].loc EXCEPT !.token = r.token],
           OkResp(r.user, r.token, r.expiresAt), << >>)

\* getExistingToken resumes with the response of the GET: a success with
\* data is adopted, anything else is null and generateToken sends its POST.
HookGetReturns(p) ==
    /\ procs[p].op = "hook" /\ procs[p].pc = "get_wait"
    /\ last.op = "current" /\ last.in.authId = procs[p].in.authId
    /\ IF last.resp.success /\ last.resp.user # << >>
       THEN HookAdopt(p, last.resp)
       ELSE Goto(p, "hook", "gen_wait", procs[p].in, procs[p].loc)
    /\ UNCHANGED <<users, tokens, now, ticks, hook, db, issued, stored,
                   lastSync>>

\* generateToken throws: the catch of initializeToken calls generateToken
\* once more, and a second throw ends in setError.
HookGenerateThrows(p) ==
    IF procs[p].pc = "gen_wait"
    THEN Goto(p, "hook", "retry_wait", procs[p].in, procs[p].loc)
    ELSE Return(p, "hook", procs[p].in, procs[p].loc,
                ErrorResp(0, "Failed to generate authentication token"),
                << >>)

\* generateToken resumes with the response of its POST (no
\* expiresInMinutes).
HookGenerateReturns(p) ==
    /\ procs[p].op = "hook" /\ procs[p].pc \in {"gen_wait", "retry_wait"}
    /\ last.op = "issue" /\ last.in.clerkId = procs[p].in.clerkId
    /\ last.in.authId = procs[p].in.authId /\ last.in.ttl = << >>
    /\ IF last.resp.success
       THEN HookAdopt(p, last.resp)
       ELSE HookGenerateThrows(p)
    /\ UNCHANGED <<users, tokens, now, ticks, hook, db, issued, stored,
                   lastSync>>

\* The fetch of the hook rejects (no connection): getExistingToken catches
\* and returns null, generateToken rethrows.
HookFetchFails(p) ==
    /\ procs[p].op = "hook"
    /\ IF procs[p].pc = "get_wait"
       THEN Goto(p, "hook", "gen_wait", procs[p].in, procs[p].loc)
       ELSE HookGenerateThrows(p)
    /\ UNCHANGED <<users, tokens, now, ticks, hook, db, issued, stored,
                   lastSync>>

\* ------------------------------------------------------------------------
\* useAuthenticatedUser: the React state of the hook
\* ------------------------------------------------------------------------
\* The two copies of the hook: lib/auth-utils.ts calls fetch itself,
\* the other one (part_004) goes through apiService.
HookCopies == {"auth-utils", "part_004"}

\* The calls in flight: syncUser awaiting its fetch, and initializeToken
\* awaiting getExistingToken (get), its first generateToken (gen) or the
\* generateToken of its catch (retry).
NoCalls == [sync |-> 0, get |-> 0, gen |-> 0, retry |-> 0]

\* useState(null), useState(null), useState(true), useState(null), before
\* the first effects have run.  signedIn stands for isSignedIn, user and
\* userId of Clerk, which are set together; localUser and authToken tell
\* whether the state holds a value.
NoHook ==
    [copy |-> "auth-utils", mounted |-> FALSE, signedIn |-> FALSE,
     localUser |-> FALSE, authToken |-> FALSE, isLoading |-> TRUE,
     error |-> "", calls |-> NoCalls]

CallsInFlight(h) == h.calls.sync + h.calls.get + h.calls.gen + h.calls.retry

\* The first effect: syncUser() when signed in (setIsLoading(true),
\* setError(null), the fetch is sent), the reset otherwise; the reset of
\* part_004 clears error too.
UserEffect(h) ==
    IF h.signedIn
    THEN [h EXCEPT !.isLoading = TRUE, !.error = "", !.calls.sync = @ + 1]
    ELSE [h EXCEPT !.localUser = FALSE, !.authToken = FALSE,
                   !.isLoading = FALSE,
                   !.error = IF h.copy = "part_004" THEN "" ELSE @]

\* The second effect: initializeToken() under its guard
\* localUser && !authToken && userId.  getExistingToken of auth-utils.ts
\* sends its GET; the one of part_004 returns null at once (authToken is
\* null) and generateToken sends its POST.
TokenEffect(h) ==
    IF h.localUser /\ ~h.authToken /\ h.signedIn
    THEN IF h.copy = "auth-utils"
         THEN [h EXCEPT !.calls.get = @ + 1]
         ELSE [h EXCEPT !.calls.gen = @ + 1]
    ELSE h

\* The calls the effects start when Clerk reports signedIn
CallsStarted(h, signedIn) ==
    IF ~signedIn THEN 0 ELSE IF h.localUser /\ ~h.authToken THEN 2 ELSE 1

\* The hook leaves the rest of the system alone.
ClientFrame ==
    UNCHANGED <<users, tokens, now, ticks, procs, issued, stored, lastSync,
                last, db>>

\* The component mounts and its effects run for the first time.
ClientMount ==
    /\ ~hook.mounted
    /\ \E signedIn \in BOOLEAN :
          hook' = TokenEffect(UserEffect(
                     [hook EXCEPT !.mounted = TRUE, !.signedIn = signedIn]))
    /\ ClientFrame

\* Clerk reports a signed-in user: isSignedIn, user and userId change and
\* both effects run.
ClientSignIn ==
    /\ hook.mounted /\ ~hook.signedIn
    /\ CallsInFlight(hook) + CallsStarted(hook, TRUE) <= MaxCalls
    /\ hook' = TokenEffect(UserEffect([hook EXCEPT !.signedIn = TRUE]))
    /\ ClientFrame

\* Clerk reports that the user signed out: the first effect resets the
\* state.  The calls in flight are not cancelled.
ClientSignOut ==
    /\ hook.mounted /\ hook.signedIn
    /\ hook' = TokenEffect(UserEffect([hook EXCEPT !.signedIn = FALSE]))
    /\ ClientFrame

\* What POST /api/auth/sync-user can answer: {success: true, data: user},
\* {success: true, data: null} (updateUser returned null), {success: false,
\* error}; or the fetch rejects.
SyncResults == {"user", "null", "error", "rejected"}

\* syncUser resumes.  auth-utils.ts stores result.data of a success, null
\* included; apiService.users.syncUser throws on a success without data.
\* finally: setIsLoading(false).  A new localUser runs the second effect.
ClientSyncResponds ==
    /\ hook.calls.sync > 0
    /\ \E r \in SyncResults :
          LET h == [hook EXCEPT !.calls.sync = @ - 1, !.isLoading = FALSE]
          IN  hook' =
                 IF r = "user"
                 THEN TokenEffect([h EXCEPT !.localUser = TRUE])
                 ELSE IF r = "null" /\ h.copy = "auth-utils"
                 THEN [h EXCEPT !.localUser = FALSE]
                 ELSE IF r = "rejected"
                 THEN [h EXCEPT !.error = "Network error"]
                 ELSE [h EXCEPT !.error = "Failed to sync user"]
    /\ ClientFrame

\* What GET /api/auth/generate-token can answer: a token, or an error; or
\* the fetch rejects.
TokenResults == {"token", "error", "rejected"}

\* getExistingToken resumes: a token is stored with setAuthToken, anything
\* else is null and initializeToken calls generateToken.
ClientGetResponds ==
    /\ hook.calls.get > 0
    /\ \E r \in TokenResults :
          LET h == [hook EXCEPT !.calls.get = @ - 1]
          IN  hook' = IF r = "token"
                      THEN [h EXCEPT !.authToken = TRUE]
                      ELSE [h EXCEPT !.calls.gen = @ + 1]
    /\ ClientFrame

\* generateToken resumes: a token is stored with setAuthToken; otherwise it
\* throws, the catch of initializeToken calls generateToken once more and
\* a second throw ends in setError.
ClientGenerateResponds ==
    /\ \E call \in {"gen", "retry"}, r \in TokenResults :
          /\ hook.calls[call] > 0
          /\ LET h == [hook EXCEPT !.calls[call] = @ - 1]
             IN  hook' =
                    IF r = "token"
                    THEN [h EXCEPT !.authToken = TRUE]
                    ELSE IF call = "gen"
                    THEN [h EXCEPT !.calls.retry = @ + 1]
                    ELSE [h EXCEPT !.error =
                            "Failed to generate authentication token"]
    /\ ClientFrame

\* ------------------------------------------------------------------------
\* The clock
\* ------------------------------------------------------------------------
Tick(deltas) ==
    /\ ticks < MaxTicks
    /\ \E d \in deltas : now' = now + d
    /\ ticks' = ticks + 1
    /\ last' = NoEvent
    /\ UNCHANGED <<users, tokens, procs, hook, db, issued, stored, lastSync>>

\* ------------------------------------------------------------------------
\* lib/api-service.ts: HttpClient.request
\* ------------------------------------------------------------------------
\* API_CONFIG.timeout, in milliseconds
ApiTimeout == 10000

HttpStatuses == {200, 404, 500}

\* Response.ok
ResponseOk(status) == status >= 200 /\ status <= 299

\* The three ways a request ends: the parsed body, an ApiError with the
\* status, or a NetworkError with its message.
HttpResult == OkResp(<< >>, 0, 0)
ApiErrorOf(status) == ErrorResp(status, "ApiError: API request failed")
NetworkErrorOf(message) == ErrorResp(0, "NetworkError: " \o message)

\* The time at which controller.abort() is due
AbortDue(p) == procs[p].loc.stamp + ApiTimeout

\* request(): the timer is armed and fetch is called; the slot waits for
\* the fetch promise.
HttpStart(p) ==
    /\ CanStart(p)
    /\ \E c \in ClerkIds :
          Goto(p, "http", "fetch_wait", [NoInput EXCEPT !.clerkId = c],
               [NoLocals EXCEPT !.stamp = now])
    /\ UNCHANGED <<users, tokens, now, ticks, hook, db, issued, stored,
                   lastSync>>

\* The fetch promise resolves with the status line and the headers:
\* clearTimeout, then response.text() or response.json() reads the body.
HttpHeadersArrive(p) ==
    /\ procs[p].op = "http" /\ procs[p].pc = "fetch_wait"
    /\ \E status \in HttpStatuses :
          Goto(p, "http",
               IF ResponseOk(status) THEN "json_wait" ELSE "text_wait",
               procs[p].in, [procs[p].loc EXCEPT !.status = status])
    /\ UNCHANGED <<users, tokens, now, ticks, hook, db, issued, stored,
                   lastSync>>

\* The timer fires while fetch is pending: abort() rejects the fetch with
\* an AbortError.
HttpTimerFires(p) ==
    /\ procs[p].op = "http" /\ procs[p].pc = "fetch_wait"
    /\ now >= AbortDue(p)
    /\ Return(p, "http", procs[p].in,
              [procs[p].loc EXCEPT !.failed = "AbortError"],
              NetworkErrorOf("Request timeout"), << >>)
    /\ UNCHANGED <<users, tokens, now, ticks, hook, db, issued, stored,
                   lastSync>>

\* fetch rejects for another reason (no connection).
HttpFetchRejects(p) ==
    /\ procs[p].op = "http" /\ procs[p].pc = "fetch_wait"
    /\ Return(p, "http", procs[p].in,
              [procs[p].loc EXCEPT !.failed = "fetch"],
              NetworkErrorOf("Failed to fetch"), << >>)
    /\ UNCHANGED <<users, tokens, now, ticks, hook, db, issued, stored,
                   lastSync>>

\* The body has arrived: the text of an error response goes into an
\* ApiError, the parsed JSON of an ok response is returned.
HttpBodyArrives(p) ==
    /\ procs[p].op = "http" /\ procs[p].pc \in {"text_wait", "json_wait"}
    /\ Return(p, "http", procs[p].in, procs[p].loc,
              IF procs[p].pc = "text_wait"
              THEN ApiErrorOf(procs[p].loc.status) ELSE HttpResult, << >>)
    /\ UNCHANGED <<users, tokens, now, ticks, hook, db, issued, stored,
                   lastSync>>

\* Reading the body rejects (connection lost, or a body that is not JSON).
HttpBodyFails(p) ==
    /\ procs[p].op = "http" /\ procs[p].pc \in {"text_wait", "json_wait"}
    /\ Return(p, "http", procs[p].in,
              [procs[p].loc EXCEPT !.failed = "body"],
              NetworkErrorOf("Failed to read body"), << >>)
    /\ UNCHANGED <<users, tokens, now, ticks, hook, db, issued, stored,
                   lastSync>>

\* Time passes, but not beyond the moment a pending fetch is aborted.
HttpTick(deltas) ==
    /\ Tick(deltas)
    /\ \A p \in Procs :
          (procs[p].op = "http" /\ procs[p].pc = "fetch_wait") =>
              now' <= AbortDue(p)

\* ------------------------------------------------------------------------
\* Specifications
\* ------------------------------------------------------------------------
\* A fresh database.db, no request in progress
Init ==
    /\ users = {}
    /\ tokens = {}
    /\ now = StartTime
    /\ ticks = 0
    /\ procs = [p \in {1} |-> IdleProc]
    /\ issued = {}
    /\ stored = {}
    /\ lastSync = [c \in ClerkIds |-> << >>]
    /\ last = NoEvent
    /\ hook = NoHook
    /\ db = ReadyDb

\* First sign-in of a Clerk user: the hook's sync of a user without a row
FirstSyncBodies ==
    {[NoInput EXCEPT !.authId = c, !.clerkId = c,
                     !.email = IF c = "c1" THEN "e1" ELSE "e2"] :
        c \in {x \in ClerkIds : getUserByClerkId(x) = << >>}}

\* expiresInMinutes of a generate-token body: << >> is "omitted".
TtlInputs == {<< >>, <<1>>}
AllTtlInputs ==
    {<< >>, <<0>>, <<0 - 5>>, <<1>>, <<MaxTtl>>, <<MaxTtl + 1>>, <<999999>>}

\* The token bridge: users sign in once, tokens are issued, fetched and
\* verified while the clock runs.
Next ==
    \/ Tick(Deltas)
    \/ \E p \in Procs : SyncStart(p, FirstSyncBodies)
    \/ \E p \in Procs : SyncInsert(p)
    \/ \E p \in Procs : IssueStart(p, TtlInputs)
    \/ \E p \in Procs : IssueSweep(p)
    \/ \E p \in Procs : IssueInsert(p)
    \/ \E p \in Procs : GetCurrentStart(p)
    \/ \E p \in Procs : GetCurrentToken(p)
    \/ \E p \in Procs : ValidateStart(p)
    \/ \E p \in Procs : ValidateScan(p)

Spec == Init /\ [][Next]_vars

\* Issuance with every kind of expiresInMinutes
NextTtl ==
    \/ Tick(Deltas)
    \/ \E p \in Procs : SyncStart(p, FirstSyncBodies)
    \/ \E p \in Procs : SyncInsert(p)
    \/ \E p \in Procs : IssueStart(p, AllTtlInputs)
    \/ \E p \in Procs : IssueSweep(p)
    \/ \E p \in Procs : IssueInsert(p)

SpecTtl == Init /\ [][NextTtl]_vars

\* Repeated syncs of the two Clerk users with changing profiles
NextSync ==
    \/ Tick({500})
    \/ \E p \in Procs : SyncStart(p, SyncBodies)
    \/ \E p \in Procs : SyncInsert(p)
    \/ \E p \in Procs : SyncUpdate(p)
    \/ \E p \in Procs : SyncRead(p)

SpecSync == Init /\ [][NextSync]_vars

\* Syncs of every outcome (created, updated, refused by the handler, refused
\* by a constraint) among issuances
FrameSyncBodies ==
    {b \in SyncBodies :
        \/ b.authId = "" \/ b.authId # b.clerkId \/ MissingRequiredFields(b)
        \/ (b.firstName = Absent /\ (b.clerkId = "c1" \/ b.email = "e1"))}

FrameTtlInputs == {<<1>>}
\* The clock moves by the lifetime of such a token.
FrameDeltas == {MsPerMinute}

NextFrame ==
    \/ Tick(FrameDeltas)
    \/ \E p \in Procs : SyncStart(p, FrameSyncBodies)
    \/ \E p \in Procs : SyncInsert(p)
    \/ \E p \in Procs : SyncUpdate(p)
    \/ \E p \in Procs : SyncRead(p)
    \/ \E p \in Procs : IssueStart(p, FrameTtlInputs)
    \/ \E p \in Procs : IssueSweep(p)
    \/ \E p \in Procs : IssueInsert(p)

SpecFrame == Init /\ [][NextFrame]_vars

\* Issuance when the generator may return a value a second time
NextCollide ==
    \/ Tick(FrameDeltas)
    \/ \E p \in Procs : SyncStart(p, FirstSyncBodies)
    \/ \E p \in Procs : SyncInsert(p)
    \/ \E p \in Procs : IssueStartWith(p, TtlInputs, randomBytesAnyValue)
    \/ \E p \in Procs : IssueSweep(p)
    \/ \E p \in Procs : IssueInsert(p)

SpecCollide == Init /\ [][NextCollide]_vars

\* Two requests at a time on one Clerk user: the tabs of a browser sync
\* while Clerk delivers the user's events.
InitRace ==
    /\ users = {}
    /\ tokens = {}
    /\ now = StartTime
    /\ ticks = 0
    /\ procs = [p \in {1, 2} |-> IdleProc]
    /\ issued = {}
    /\ stored = {}
    /\ lastSync = [c \in ClerkIds |-> << >>]
    /\ last = NoEvent
    /\ hook = NoHook
    /\ db = ReadyDb

RaceSyncBodies ==
    {b \in SyncBodies :
        /\ b.authId = "c1" /\ b.clerkId = "c1"
        /\ (b.email = "e1") = (b.firstName = "Ann")}

RaceWebhookBodies ==
    {b \in WebhookBodies :
        /\ b.firstName = Absent
        /\ \/ b.clerkId = "c1" /\ b.email # "e2"
           \/ /\ b.clerkId = "c2" /\ b.email = "e2"
              /\ getUserByClerkId("c2") = << >>}

RaceDeltas == {MsPerSecond}

NextRace ==
    \/ Tick(RaceDeltas)
    \/ \E p \in Procs : SyncStart(p, RaceSyncBodies)
    \/ \E p \in Procs : SyncInsert(p)
    \/ \E p \in Procs : SyncUpdate(p)
    \/ \E p \in Procs : SyncRead(p)
    \/ \E p \in Procs : WebhookStart(p, RaceWebhookBodies)
    \/ \E p \in Procs : WebhookInsert(p)
    \/ \E p \in Procs : WebhookUpdate(p)
    \/ \E p \in Procs : WebhookRead(p)

SpecRace == InitRace /\ [][NextRace]_vars

\* The statements of the database may fail (SQLITE_BUSY, an I/O error, a
\* table initializeTables has not created yet): every SELECT and the DELETE
\* of the sweep either execute or raise.
FaultSyncBodies ==
    {[NoInput EXCEPT !.authId = c, !.clerkId = c,
                     !.email = IF c = "c1" THEN "e1" ELSE "e2"] :
        c \in ClerkIds}

NextFault ==
    \/ Tick(FrameDeltas)
    \/ \E p \in Procs : SyncStart(p, FirstSyncBodies)
    \/ \E p \in Procs : SyncStartFails(p, FaultSyncBodies)
    \/ \E p \in Procs : SyncInsert(p)
    \/ \E p \in Procs : IssueStart(p, FrameTtlInputs)
    \/ \E p \in Procs : IssueStartFails(p, FrameTtlInputs)
    \/ \E p \in Procs : IssueSweep(p)
    \/ \E p \in Procs : IssueSweepFails(p)
    \/ \E p \in Procs : IssueInsert(p)
    \/ \E p \in Procs : GetCurrentStart(p)
    \/ \E p \in Procs : GetCurrentStartFails(p)
    \/ \E p \in Procs : GetCurrentToken(p)
    \/ \E p \in Procs : GetCurrentTokenFails(p)

SpecFault == Init /\ [][NextFault]_vars

\* Browser tabs initialize their token while the server handles the
\* requests (theirs and those of other tabs) one at a time.  The tokens
\* live for the default 1440 minutes, so the clock plays no part.
HookTtlInputs == {<< >>}

\* No request of the server is in progress in another slot.
ServerIdle(p) ==
    \A q \in Procs \ {p} : procs[q].op \in {"none", "hook"}

NextHook ==
    \/ \E p \in Procs : ServerIdle(p) /\ SyncStart(p, FirstSyncBodies)
    \/ \E p \in Procs : SyncInsert(p)
    \/ \E p \in Procs : ServerIdle(p) /\ IssueStart(p, HookTtlInputs)
    \/ \E p \in Procs : IssueSweep(p)
    \/ \E p \in Procs : IssueInsert(p)
    \/ \E p \in Procs : ServerIdle(p) /\ GetCurrentStart(p)
    \/ \E p \in Procs : GetCurrentToken(p)
    \/ \E p \in Procs : HookStart(p)
    \/ \E p \in Procs : HookStartApiService(p)
    \/ \E p \in Procs : HookGetReturns(p)
    \/ \E p \in Procs : HookGenerateReturns(p)
    \/ \E p \in Procs : HookFetchFails(p)

SpecHook == InitRace /\ [][NextHook]_vars

\* Syncs and session.created events, one at a time
NextSession ==
    \/ Tick(FrameDeltas)
    \/ \E p \in Procs : SyncStart(p, FirstSyncBodies)
    \/ \E p \in Procs : SyncInsert(p)
    \/ \E p \in Procs : SessionStart(p)
    \/ \E p \in Procs : SessionUpdate(p)
    \/ \E p \in Procs : SessionRead(p)

SpecSession == Init /\ [][NextSession]_vars

\* The server process starts: the first request constructs the Database
\* and initializeTables runs among the statements of the requests.
InitBoot ==
    /\ users = {}
    /\ tokens = {}
    /\ now = StartTime
    /\ ticks = 0
    /\ procs = [p \in {1} |-> IdleProc]
    /\ issued = {}
    /\ stored = {}
    /\ lastSync = [c \in ClerkIds |-> << >>]
    /\ last = NoEvent
    /\ hook = NoHook
    /\ \E fresh \in BOOLEAN : db = NoDb(fresh)

NextBoot ==
    \/ InitializeTablesStep
    \/ \E p \in Procs : BootCurrentStart(p)
    \/ \E p \in Procs : BootCurrentUser(p)
    \/ \E p \in Procs : TokensTableExists /\ GetCurrentToken(p)
    \/ \E p \in Procs : ~TokensTableExists /\ GetCurrentTokenFails(p)
    \/ \E p \in Procs : /\ db.instance /\ UsersTableExists
                         /\ SyncStart(p, FirstSyncBodies)
    \/ \E p \in Procs : SyncInsert(p)

SpecBoot == InitBoot /\ [][NextBoot]_vars

\* One hook in a browser: Clerk signs the user in and out while the calls
\* of the hook are answered.
InitClient ==
    /\ users = {}
    /\ tokens = {}
    /\ now = StartTime
    /\ ticks = 0
    /\ procs = [p \in {1} |-> IdleProc]
    /\ issued = {}
    /\ stored = {}
    /\ lastSync = [c \in ClerkIds |-> << >>]
    /\ last = NoEvent
    /\ \E copy \in HookCopies : hook = [NoHook EXCEPT !.copy = copy]
    /\ db = ReadyDb

NextClient ==
    \/ ClientMount
    \/ ClientSignIn
    \/ ClientSignOut
    \/ ClientSyncResponds
    \/ ClientGetResponds
    \/ ClientGenerateResponds

SpecClient == InitClient /\ [][NextClient]_vars

\* Every call of the hook gets its response, or its fetch rejects.
SpecClientLive ==
    /\ SpecClient
    /\ WF_vars(ClientSyncResponds)
    /\ WF_vars(ClientGetResponds)
    /\ WF_vars(ClientGenerateResponds)

\* Two requests of the HTTP client and the clock
HttpDeltas == {ApiTimeout \div 2, ApiTimeout}

NextHttp ==
    \/ HttpTick(HttpDeltas)
    \/ \E p \in Procs : HttpStart(p)
    \/ \E p \in Procs : HttpHeadersArrive(p)
    \/ \E p \in Procs : HttpTimerFires(p)
    \/ \E p \in Procs : HttpFetchRejects(p)
    \/ \E p \in Procs : HttpBodyArrives(p)
    \/ \E p \in Procs : HttpBodyFails(p)

SpecHttp == InitRace /\ [][NextHttp]_vars

\* ------------------------------------------------------------------------
\* Properties
\* ------------------------------------------------------------------------
\* The response verify-token gives when no user's current token matches
InvalidTokenResponse == ErrorResp(401, "Invalid or expired token")

\* C1: two tokens issued to the same user have distinct values, and
\* verifying either of them before its own expiresAt succeeds and returns
\* that user, whatever the other token is.
C1_BothTokensValidate ==
    \A r1, r2 \in tokens :
        (r1 # r2 /\ r1.clerkId = r2.clerkId) =>
            /\ r1.token # r2.token
            /\ (last.op = "verify" /\ last.in.token = r1.token
                /\ now < r1.expiresAt) =>
                   /\ last.resp.success
                   /\ last.resp.user # << >>
                   /\ last.resp.user[1].id = r1.userId

\* C2: verifying a value that was issued and whose expiresAt is at or before
\* the current time fails with a response that differs from the one a value
\* that was never issued gets.
C2_ExpiredDistinctFromInvalid ==
    (last.op = "verify"
     /\ \E r \in tokens : r.token = last.in.token /\ r.expiresAt <= now) =>
        /\ ~last.resp.success
        /\ last.resp # InvalidTokenResponse

\* C3: an Issue with a zero or negative expiresInMinutes yields the default
\* expiry, issue time + 1440 minutes, which is later than the issue time.
C3_NonPositiveTtlIsDefault ==
    (last.op = "issue" /\ last.resp.success /\ last.in.ttl # << >>
     /\ last.in.ttl[1] <= 0) =>
        /\ last.resp.expiresAt = last.loc.issuedAt + DefaultTtl * MsPerMinute
        /\ last.resp.expiresAt > last.loc.issuedAt

\* C4: an Issue with expiresInMinutes above 10080 yields expiresAt = issue
\* time + 10080 minutes, and no issued token expires later than 10080
\* minutes after its issue time.
C4_TtlClamped ==
    /\ (last.op = "issue" /\ last.resp.success) =>
          /\ last.resp.expiresAt <= last.loc.issuedAt + MaxTtl * MsPerMinute
          /\ (last.in.ttl # << >> /\ last.in.ttl[1] > MaxTtl) =>
                last.resp.expiresAt = last.loc.issuedAt + MaxTtl * MsPerMinute
    /\ \A r \in tokens : r.expiresAt <= r.createdAt + MaxTtl * MsPerMinute

C4_Witness ==
    /\ last.op = "issue" /\ last.resp.success
    /\ last.in.ttl = <<999999>>
    /\ \E r \in tokens : /\ r.token = last.resp.token
                         /\ r.expiresAt = last.resp.expiresAt
                         /\ r.createdAt > last.loc.issuedAt

\* C5: an Issue without expiresInMinutes yields expiresAt = issue time +
\* 1440 minutes, in the response and in the stored row.
C5_DefaultTtl ==
    (last.op = "issue" /\ last.resp.success /\ last.in.ttl = << >>) =>
        /\ last.resp.expiresAt = last.loc.issuedAt + DefaultTtl * MsPerMinute
        /\ \E r \in tokens : /\ r.token = last.resp.token
                             /\ r.expiresAt = last.resp.expiresAt

C5_Witness ==
    /\ last.op = "issue" /\ last.resp.success /\ last.in.ttl = << >>
    /\ last.loc.issuedAt > StartTime

\* The token rows of a Clerk user
TokensOf(clerkId) == {r \in tokens : r.clerkId = clerkId}

\* C6: GetCurrent of a synced user without a token fails with 404, and
\* GetCurrent of a user whose only token has not reached its expiresAt
\* returns that token's value and expiresAt.
C6_GetCurrentReturnsIssued ==
    (last.op = "current" /\ last.in.authId # ""
     /\ getUserByClerkId(last.in.authId) # << >>) =>
        /\ TokensOf(last.in.authId) = {} =>
              (~last.resp.success /\ last.resp.status = 404)
        /\ \A r \in TokensOf(last.in.authId) :
              (TokensOf(last.in.authId) = {r} /\ now < r.expiresAt) =>
                  /\ last.resp.success
                  /\ last.resp.token = r.token
                  /\ last.resp.expiresAt = r.expiresAt

\* C7: verifying the value of a user's most recently issued token before
\* its expiresAt succeeds and returns the user the token belongs to.
C7_FreshTokenValidates ==
    \A r \in tokens :
        (/\ last.op = "verify" /\ last.in.token = r.token
         /\ now < r.expiresAt
         /\ \A o \in TokensOf(r.clerkId) \ {r} : o.createdAt < r.createdAt) =>
            /\ last.resp.success
            /\ last.resp.user # << >>
            /\ last.resp.user[1].id = r.userId
            /\ last.resp.user[1].clerkId = r.clerkId

\* C8: verifying a value that no Issue ever stored never succeeds: the
\* answer is the 401 'Invalid or expired token' (400 for the empty value).
C8_NeverIssuedNeverValid ==
    (last.op = "verify" /\ last.in.token \notin issued) =>
        /\ ~last.resp.success
        /\ IF last.in.token = MissingToken
           THEN last.resp = ErrorResp(400, "Missing token")
           ELSE last.resp = InvalidTokenResponse

C8_Witness ==
    /\ last.op = "verify"
    /\ last.in.token \notin issued
    /\ last.in.token # MissingToken
    /\ \E r \in tokens : now < r.expiresAt
    /\ ~last.resp.success

\* C9: at or after a token's expiresAt no verify of its value succeeds and
\* no GetCurrent returns it; a token that is returned expires later than now.
C9_ExpiredUnusable ==
    /\ (last.op \in {"verify", "current"} /\ last.resp.success) =>
          now < last.resp.expiresAt
    /\ \A r \in tokens :
          r.expiresAt <= now =>
             /\ ~(last.op = "verify" /\ last.in.token = r.token
                  /\ last.resp.success)
             /\ ~(last.op = "current" /\ last.resp.success
                  /\ last.resp.token = r.token)

C9_Witness ==
    /\ last.op = "verify"
    /\ \E r \in tokens : r.token = last.in.token /\ r.expiresAt = now
    /\ ~last.resp.success

\* The body of the call repeats the one of the previous call on the clerkId
SameAssertion(in, rec) ==
    /\ in.email = rec.email
    /\ in.firstName = rec.firstName
    /\ in.lastName = rec.lastName
    /\ in.imageUrl = rec.imageUrl

\* C10: a sync that follows a successful sync of the same assertion returns
\* a user with the same id, clerkId and createdAt, with updatedAt equal or
\* later, and the table holds exactly one row for the clerkId.
C10_SyncIdempotent ==
    (last.op = "sync" /\ last.prev # << >>
     /\ SameAssertion(last.in, last.prev[1])) =>
        /\ last.resp.success
        /\ last.resp.user # << >>
        /\ last.resp.user[1].id = last.prev[1].id
        /\ last.resp.user[1].clerkId = last.prev[1].clerkId
        /\ last.resp.user[1].createdAt = last.prev[1].createdAt
        /\ last.resp.user[1].updatedAt >= last.prev[1].updatedAt
        /\ Cardinality({u \in users : u.clerkId = last.in.clerkId}) = 1

C10_Witness ==
    /\ last.op = "sync" /\ last.prev # << >>
    /\ SameAssertion(last.in, last.prev[1])
    /\ last.resp.success /\ last.resp.user # << >>
    /\ last.resp.user[1].updatedAt > last.prev[1].updatedAt
    /\ Cardinality(users) = 2

\* The call got past the checks of the handler and ran db.upsertUser.
RanUpsert(e) == e.op = "sync" /\ e.loc.signIn # << >>

\* C14: after a successful sync of a user that already had a row, the
\* stored firstName, lastName and imageUrl are the ones of the call, absent
\* when the call omits them.
C14_OmittedFieldsCleared ==
    (RanUpsert(last) /\ last.loc.newUser = << >>
     /\ last.resp.success /\ last.resp.user # << >>) =>
        \A u \in users :
            u.clerkId = last.in.clerkId =>
                /\ u.firstName = last.in.firstName
                /\ u.lastName = last.in.lastName
                /\ u.imageUrl = last.in.imageUrl

\* Another Clerk user's row holds the email.
EmailHeldByOther(clerkId, email) ==
    \E u \in users : u.clerkId # clerkId /\ u.email = email

\* C15: a sync whose email is held by the row of another clerkId is never
\* answered with success, on the create path and on the update path, and it
\* leaves the users table as it was.
C15_EmailConflictFails ==
    [][(RanUpsert(last') /\ EmailHeldByOther(last'.in.clerkId, last'.in.email))
          => (~last'.resp.success /\ users' = users)]_vars

\* C16: a sync without clerkId or without email is refused, with the 400
\* 'Missing required fields' when the caller has a Clerk session, and leaves
\* the users and the tokens as they were.
C16_MissingFieldsRejected ==
    [][(last'.op = "sync" /\ (last'.in.clerkId = "" \/ last'.in.email = ""))
          => /\ ~last'.resp.success
             /\ last'.in.authId # "" =>
                   last'.resp = ErrorResp(400,
                     "Missing required fields: clerkId and email are required")
             /\ users' = users
             /\ tokens' = tokens]_vars

C16_Witness ==
    /\ last.op = "sync" /\ last.in.authId # ""
    /\ last.in.clerkId # "" /\ last.in.email = ""
    /\ last.resp.status = 400
    /\ users # {} /\ tokens # {}

\* The step is a statement of a sync-user request.
SyncStep ==
    \/ last'.op = "sync"
    \/ \E p \in Procs : procs'[p] # procs[p] /\ procs'[p].op = "sync"

\* C19: no step of a sync, successful or failed, changes the token rows, and
\* the users change only in the one INSERT or UPDATE of its upsert.
C19_SyncTouchesNoToken ==
    [][SyncStep =>
          /\ tokens' = tokens
          /\ users' # users =>
                \E p \in Procs :
                    /\ procs[p].pc \in {"insert_exec", "update_exec"}
                    /\ procs'[p].pc \notin {"insert_exec", "update_exec"}]_vars

C19_Witness ==
    /\ last.op = "sync" /\ last.loc.newUser # << >>
    /\ last.resp.success
    /\ \E r \in tokens : r.expiresAt <= now

\* C17: an Issue for a clerkId without a row fails, with the 404 'User not
\* found' when the caller is that Clerk user, and neither creates a user nor
\* inserts a token.
C17_IssueWithoutUserFails ==
    [][(last'.op = "issue" /\ last'.in.clerkId # ""
        /\ ~\E u \in users : u.clerkId = last'.in.clerkId)
          => /\ ~last'.resp.success
             /\ last'.in.authId = last'.in.clerkId =>
                   last'.resp = ErrorResp(404,
                     "User not found. Please sync user first.")
             /\ users' = users
             /\ tokens' = tokens]_vars

C17_Witness ==
    /\ last.op = "issue" /\ last.in.authId = last.in.clerkId
    /\ last.resp.status = 404
    /\ users # {} /\ tokens # {}

\* The step is a statement of a verify-token request.
VerifyStep ==
    \/ last'.op = "verify"
    \/ \E p \in Procs : procs'[p] # procs[p] /\ procs'[p].op = "verify"

\* C20: no step of a verify-token request, whatever its input and outcome,
\* changes a user row or a token row.
C20_ValidateReadOnly ==
    [][VerifyStep => (users' = users /\ tokens' = tokens)]_vars

C20_Witness ==
    /\ last.op = "verify" /\ last.resp.success
    /\ \E r \in tokens : r.expiresAt <= now

\* C18: no two token rows carry the same value: createUserToken refuses a
\* row whose value another row already has.
C18_TokenValuesUnique ==
    \A r1, r2 \in tokens : r1.token = r2.token => r1 = r2

\* C11: whatever the interleaving of sync-user requests and Clerk webhook
\* upserts, the users table holds at most one row per clerkId.
C11_OneRowPerClerkId ==
    \A u1, u2 \in users : u1.clerkId = u2.clerkId => u1 = u2

\* A sync lost the race for a new clerkId against a webhook upsert (the row
\* of the webhook has no lastSignInAt).
C11_Witness ==
    /\ RanUpsert(last) /\ last.loc.newUser # << >>
    /\ \E u \in users : /\ u.clerkId = last.in.clerkId
                          /\ u.id # last.loc.newUser[1].id
                          /\ u.lastSignInAt = << >>
    /\ Cardinality(users) = 2

\* The call went down the create path: its SELECT found no row.
ReadAbsent(e) == RanUpsert(e) /\ e.loc.newUser # << >>

\* C12: of two syncs of a clerkId without a row that both read 'absent'
\* before either writes, the second to write succeeds like the first and
\* returns the id the first returned.
C12_ConcurrentCreateSafe ==
    [][(/\ ReadAbsent(last) /\ last.resp.success /\ last.resp.user # << >>
        /\ ReadAbsent(last') /\ last'.in.clerkId = last.in.clerkId)
          => /\ last'.resp.success
             /\ last'.resp.user # << >>
             /\ last'.resp.user[1].id = last.resp.user[1].id]_vars

\* The profile fields a sync writes and the ones a row holds
ProfileOfCall(in, loc) ==
    <<in.email, in.firstName, in.lastName, in.imageUrl, loc.signIn>>

ProfileOfRow(u) ==
    <<u.email, u.firstName, u.lastName, u.imageUrl, u.lastSignInAt>>

\* C13: when two overlapping syncs of an existing user have both executed
\* their UPDATE, the profile fields of the row are those of one of the two
\* calls.
C13_FieldSetAtomic ==
    \A p, q \in Procs :
        (/\ p # q
         /\ procs[p].op = "sync" /\ procs[p].pc = "update_read"
         /\ procs[q].op = "sync" /\ procs[q].pc = "update_read"
         /\ procs[p].in.clerkId = procs[q].in.clerkId) =>
            \A u \in users :
                u.clerkId = procs[p].in.clerkId =>
                    ProfileOfRow(u) \in
                        {ProfileOfCall(procs[p].in, procs[p].loc),
                         ProfileOfCall(procs[q].in, procs[q].loc)}

\* The step is a statement of a GET generate-token request.
CurrentStep ==
    \/ last'.op = "current"
    \/ \E p \in Procs : procs'[p] # procs[p] /\ procs'[p].op = "current"

\* C21: no step of a GetCurrent, whether it returns a token or a 404,
\* creates, deletes or changes a token row or a user row.
C21_GetCurrentReadOnly ==
    [][CurrentStep => (users' = users /\ tokens' = tokens)]_vars

C21_Witness ==
    /\ last.op = "current" /\ last.resp.status = 404
    /\ getUserByClerkId(last.in.clerkId) # << >>
    /\ \E r \in TokensOf(last.in.clerkId) : r.expiresAt <= now

\* C23: the sweep of an Issue removes the rows with expiresAt <= now and
\* no other row.
C23_SweepDeletesExactlyExpired ==
    [][(\E p \in Procs : /\ procs[p].op = "issue"
                          /\ procs[p].pc = "sweep_exec"
                          /\ procs'[p].pc = "insert_exec")
          => tokens' = {r \in tokens : r.expiresAt > now}]_vars

\* The bodies of the requests that take the step (none when the clock moves)
StepInputs ==
    {last'.in : x \in {y \in {1} : last'.op # "none"}}
    \cup {procs'[p].in :
             p \in {q \in Procs : procs'[q] # procs[q]
                                   /\ procs'[q].op # "none"}}

\* The users verify-token can answer with for a value (whichever order the
\* scan takes)
VerifyOutcome(token) ==
    {u \in users : \E d \in getUserToken(u.clerkId) : TokenMatches(d, token)}

\* C24: a step of a request for one clerkId leaves the row of every other
\* clerkId as it was, and with it what GetCurrent returns for that user and
\* what verifying any of that user's unexpired tokens returns.
C24_OtherUsersUntouched ==
    [][\A in \in StepInputs :
          \A B \in ClerkIds \ {in.clerkId} :
              /\ getUserByClerkId(B)' = getUserByClerkId(B)
              /\ getUserToken(B)' = getUserToken(B)
              /\ \A r \in TokensOf(B) :
                    r.expiresAt > now =>
                        VerifyOutcome(r.token)' = VerifyOutcome(r.token)]_vars

C24_Witness ==
    /\ last.op = "issue" /\ last.resp.success
    /\ \E r \in tokens : /\ r.clerkId # last.in.clerkId
                           /\ r.expiresAt > now
                           /\ VerifyOutcome(r.token) # {}

\* C25: a row of users is never deleted and keeps its id, clerkId and
\* createdAt in every step of a sync or a webhook upsert.
C25_IdentityImmutable ==
    [][\A u \in users :
          \E v \in users' : /\ v.id = u.id
                             /\ v.clerkId = u.clerkId
                             /\ v.createdAt = u.createdAt]_vars

C25_Witness ==
    /\ last.op = "webhook" /\ last.loc.stamp > StartTime
    /\ \E u \in users : /\ u.clerkId = last.in.clerkId
                          /\ u.updatedAt > u.createdAt
                          /\ u.lastSignInAt # << >>

\* C27: GetCurrent of a synced user returns the token with the latest
\* createdAt among the user's tokens with expiresAt > now, and answers 404
\* exactly when there is no such token.
C27_GetCurrentLatestUnexpired ==
    (last.op = "current" /\ last.in.authId # ""
     /\ getUserByClerkId(last.in.authId) # << >>) =>
        LET valid == {r \in TokensOf(last.in.authId) : r.expiresAt > now}
        IN  IF valid = {}
            THEN ~last.resp.success /\ last.resp.status = 404
            ELSE /\ last.resp.success
                 /\ \E r \in valid :
                       /\ r.token = last.resp.token
                       /\ r.expiresAt = last.resp.expiresAt
                       /\ \A o \in valid : o.createdAt <= r.createdAt

\* C29: the sweeps make no difference to what is read: for every user the
\* SELECT of getUserToken, from which GetCurrent and verify-token answer,
\* has the same results on the swept table as on the table of all the rows
\* ever inserted.
C29_SweepNotNeeded ==
    \A c \in ClerkIds : getUserToken(c) = SelectUserToken(stored, c)

C29_Witness ==
    /\ last.op \in {"current", "verify"} /\ last.resp.success
    /\ \E r \in stored \ tokens : r.token # last.resp.token

\* C22: an Issue whose sweep failed still inserts its token and answers
\* with success: the response carries the token of the row it stored.
C22_SweepFailureTolerated ==
    (last.op = "issue" /\ last.loc.failed = "deleteExpiredTokens") =>
        /\ last.resp.success
        /\ \E r \in tokens : /\ r.token = last.resp.token
                             /\ r.expiresAt = last.resp.expiresAt
                             /\ r.clerkId = last.in.clerkId

C22_Witness ==
    /\ last.op = "issue" /\ last.loc.failed = "deleteExpiredTokens"
    /\ last.resp.success
    /\ \E r \in tokens : datetime(r.expiresAt) <= datetime(now)

\* C30: a 404 of Issue or GetCurrent means that the user has no row or, for
\* GetCurrent, no token with expiresAt > now; and a sync takes the create
\* path only for a clerkId without a row.
C30_NotFoundMeansAbsent ==
    /\ (last.op \in {"issue", "current"} /\ last.resp.status = 404) =>
          \/ getUserByClerkId(last.in.clerkId) = << >>
          \/ /\ last.op = "current"
             /\ last.resp.error =
                   "No valid token found. Please generate a new token."
             /\ ~\E r \in TokensOf(last.in.clerkId) : r.expiresAt > now
    /\ \A p \in Procs :
          (procs[p].op = "sync" /\ procs[p].pc = "insert_exec") =>
              getUserByClerkId(procs[p].in.clerkId) = << >>

\* C28: the hook sends the POST of generateToken only after it has asked
\* for the existing token: a hook that starts to wait for an Issue while
\* the store holds an unexpired token of its user was waiting for the
\* answer of its get-existing request in the step before.
C28_HookAsksBeforeIssuing ==
    [][\A p \in Procs :
          (/\ procs'[p].op = "hook" /\ procs'[p].pc = "gen_wait"
           /\ procs[p] # procs'[p]
           /\ \E r \in TokensOf(procs'[p].in.clerkId) : r.expiresAt > now)
          => (procs[p].op = "hook" /\ procs[p].pc = "get_wait")]_vars

\* C26: a request in progress is not older than the configured timeout.
C26_RequestBoundedByTimeout ==
    \A p \in Procs :
        procs[p].op = "http" => now <= procs[p].loc.stamp + ApiTimeout

\* C31: updateUser on a clerkId without a row ends in an error: a
\* session.created event for which updateUser found no row is not answered
\* with success.
C31_UpdateUnknownUserFails ==
    (last.op = "session" /\ last.loc.user = << >>) => ~last.resp.success

\* C32: a sync whose UPDATE raised (the request ends at the statement,
\* without the read that follows a successful UPDATE) is answered with an
\* error response.
C32_FailedWriteNotSuccess ==
    [][\A p \in Procs :
          (/\ procs[p].op = "sync" /\ procs[p].pc = "update_exec"
           /\ procs'[p].pc = "idle")
          => ~last'.resp.success]_vars

\* The caller of the request is not the Clerk user the body names.
NotTheSubject(in) == in.authId = "" \/ in.authId # in.clerkId

\* C33: a sync or generate-token request whose caller has no Clerk session
\* or is not the user of the body is refused and leaves the users and the
\* tokens as they were, and no step of such a request changes them.
C33_OnlySubjectChangesStores ==
    [][/\ (last'.op \in {"sync", "issue"} /\ NotTheSubject(last'.in))
          => (~last'.resp.success /\ users' = users /\ tokens' = tokens)
       /\ \A p \in Procs :
             (/\ procs[p].op \in {"sync", "issue"}
              /\ procs'[p] # procs[p]
              /\ (users' # users \/ tokens' # tokens))
             => ~NotTheSubject(procs[p].in)]_vars

C33_Witness ==
    /\ last.op = "issue" /\ last.resp.status = 403
    /\ last.in.authId # "" /\ last.in.authId # last.in.clerkId
    /\ getUserByClerkId(last.in.clerkId) # << >>
    /\ tokens # {}

\* C34: a row of user_tokens is never rewritten.  A row that stays in the
\* table from one state to the next keeps its userId, clerkId, token and
\* expiresAt, a row that appears is the row an INSERT of createUserToken
\* stored in that step, and a row whose expiresAt has passed is not valid in
\* the next state.
C34_TokenRowsImmutable ==
    [][/\ \A r \in tokens' :
             IF \E s \in tokens : s.id = r.id
             THEN r \in tokens
             ELSE r \in stored' \ stored
       /\ \A r \in tokens : \A s \in tokens' :
             (s.id = r.id /\ r.expiresAt <= now) => s.expiresAt <= now']_vars

C34_Witness ==
    /\ last.op = "issue" /\ last.resp.success
    /\ \E r \in tokens : r.expiresAt <= now /\ r.token # last.resp.token

\* C35: every row of user_tokens has its user: a row of users with the
\* token's userId as id and the token's clerkId as clerkId; and the user a
\* successful verify-token returns is that row.
C35_TokenHasUser ==
    /\ \A r \in tokens :
          \E u \in users : u.id = r.userId /\ u.clerkId = r.clerkId
    /\ (last.op = "verify" /\ last.resp.success) =>
          /\ last.resp.user # << >>
          /\ last.resp.user[1] \in users
          /\ \E r \in tokens : /\ r.token = last.resp.token
                               /\ r.userId = last.resp.user[1].id
                               /\ r.clerkId = last.resp.user[1].clerkId

C35_Witness ==
    /\ last.op = "verify" /\ last.resp.success
    /\ Cardinality(users) = 2
    /\ \E r \in tokens : r.userId # last.resp.user[1].id

\* C36: while Clerk reports no signed-in user, the hook holds no localUser
\* and no authToken.
C36_SignedOutStaysReset ==
    (hook.mounted /\ ~hook.signedIn) => (~hook.localUser /\ ~hook.authToken)

\* C37: once the user is signed in, the hook comes to hold a token or an
\* error (or the user signs out).
C37_TokenOrErrorEventually ==
    hook.signedIn ~> (hook.authToken \/ hook.error # "" \/ ~hook.signedIn)

\* C38: a statement of a request executes only when initializeTables has
\* run all its statements: the SELECTs of GET generate-token find the
\* initialization complete.
C38_NoStatementBeforeInit ==
    [][\A p \in Procs :
          (/\ procs[p].op = "current"
           /\ procs[p].pc \in {"user_lookup", "token_lookup"}
           /\ procs'[p] # procs[p])
          => db.init = InitStatements]_vars

====
